---- MODULE Spec2Model ----
(***************************************************************************)
(* Model of the text-generation client of vibe-writer:                     *)
(*   src/src/llm_helper.py        provider router                          *)
(*   src/src/openai_helper.py     blocking + streaming client (OpenAI)     *)
(*   src/src/openrouter_helper.py blocking + streaming client (OpenRouter) *)
(*   src/src/utils.py             ConfigManager (the streaming gate lives  *)
(*                                in config['llm']['use_streaming'])       *)
(*                                                                         *)
(* Text is a sequence of tokens (one-character strings, or whole words     *)
(* where only equality matters).  Python's None and '' are both falsy in   *)
(* every place the clients look at them, and are modelled by "" for        *)
(* scalar settings and by <<>> for text.                                   *)
(*                                                                         *)
(* One call is in progress at a time; a call is a sequence of steps        *)
(* separated by the points where the code blocks on the network (the       *)
(* request, each line of the event feed), because the provider's answer    *)
(* and the caller's cancellation flag change between those points.         *)
(* ConfigManager.console_print is a diagnostic side channel; it reads      *)
(* config['misc']['print_to_terminal'], which the schema defaults always   *)
(* provide, and it is not modelled.                                        *)
(***************************************************************************)
EXTENDS Integers, Sequences, FiniteSets, TLC

\* Longest event feed (number of lines iter_lines yields) the model explores.
MaxLines == 3
NThreads == 2
\* Longest history the message assembly is explored with.
MaxHistory == 2

Providers == {"openai", "openrouter"}

----------------------------------------------------------------------------
\* Text helpers

RECURSIVE LStrip(_)
LStrip(s) == IF s # <<>> /\ Head(s) = " " THEN LStrip(Tail(s)) ELSE s

RECURSIVE RStrip(_)
RStrip(s) ==
    IF s # <<>> /\ s[Len(s)] = " " THEN RStrip(SubSeq(s, 1, Len(s) - 1)) ELSE s

\* str.strip()
Strip(s) == RStrip(LStrip(s))

\* str.lower() on a token
LowerTok(t) ==
    CASE t = "OpenAI" -> "openai"
      [] t = "OPENROUTER" -> "openrouter"
      [] OTHER -> t

\* str.lower()
Lower(s) == [i \in 1..Len(s) |-> LowerTok(s[i])]

RECURSIVE Concat(_)
Concat(ss) == IF ss = <<>> THEN <<>> ELSE Head(ss) \o Concat(Tail(ss))

\* a or b or c or d on scalar settings ("" is falsy)
FirstTruthy(ss) ==
    IF \E i \in 1..Len(ss) : ss[i] # ""
    THEN ss[CHOOSE i \in 1..Len(ss) : ss[i] # "" /\ \A j \in 1..(i-1) : ss[j] = ""]
    ELSE ""

----------------------------------------------------------------------------
\* Program constants

DefaultModel(p) ==
    IF p = "openai" THEN "gpt-4o-mini" ELSE "google/gemini-2.0-flash-exp:free"

DefaultSystemPrompt ==
    <<"You are a precise text-transformation assistant. Follow the instructions exactly, using the provided context. Return only the final result without extra commentary.">>

DefaultUserTemplate ==
    <<"CONTEXT:\n", "{context}", "\n\nINSTRUCTIONS:\n", "{instructions}",
      "\n\nPlease produce the final output now.">>

KeyVar(p) == IF p = "openai" THEN "OPENAI_API_KEY" ELSE "OPENROUTER_API_KEY"
ModelVar(p) == IF p = "openai" THEN "OPENAI_MODEL" ELSE "OPENROUTER_MODEL"

BlockingTimeout == 45
StreamTimeout == 90

Url(p) ==
    IF p = "openai" THEN "https://api.openai.com/v1/chat/completions"
    ELSE "https://openrouter.ai/api/v1/chat/completions"

----------------------------------------------------------------------------
\* Message assembly (identical in the four client functions)

\* str.format raises on a field it was not given ("{x}") and on an
\* unbalanced brace ("{"); a template that lacks a field it was given
\* formats without error.
FormatRaises(t) == \E i \in 1..Len(t) : t[i] \in {"{x}", "{"}

Format(t, context, instructions) ==
    Concat([i \in 1..Len(t) |->
              IF t[i] = "{context}" THEN context
              ELSE IF t[i] = "{instructions}" THEN instructions
              ELSE <<t[i]>>])

FallbackLayout(context, instructions) ==
    <<"CONTEXT:\n">> \o context \o <<"\n\nINSTRUCTIONS:\n">> \o instructions
      \o <<"\n\nPlease produce the final output now.">>

UserContent(t, context, instructions) ==
    IF FormatRaises(t) THEN FallbackLayout(context, instructions)
    ELSE Format(t, context, instructions)

\* Variant: the loop keeps every user/assistant entry, whatever its content
RECURSIVE FilterHistory_anycontent(_)
FilterHistory_anycontent(h) ==
    IF h = <<>> THEN <<>>
    ELSE IF ~Head(h).isdict THEN <<>>
    ELSE LET role == Strip(Head(h).role)
             content == Strip(Head(h).content)
         IN  (IF role \in {<<"user">>, <<"assistant">>}
              THEN <<[role |-> role, content |-> content]>>
              ELSE <<>>) \o FilterHistory_anycontent(Tail(h))

\* The loop over history_messages: an entry that is not a dict makes
\* m.get raise, and the except around the loop drops the rest.
RECURSIVE FilterHistory(_)
FilterHistory(h) ==
    IF h = <<>> THEN <<>>
    ELSE IF ~Head(h).isdict THEN <<>>
    ELSE LET role == Strip(Head(h).role)
             content == Strip(Head(h).content)
         IN  (IF role \in {<<"user">>, <<"assistant">>} /\ content # <<>>
              THEN <<[role |-> role, content |-> content]>>
              ELSE <<>>) \o FilterHistory(Tail(h))

\* Variant: the user turn is appended before the history loop
Messages_historylast(system_prompt, user_template, a) ==
    <<[role |-> <<"system">>, content |-> system_prompt]>>
      \o <<[role |-> <<"user">>,
            content |-> UserContent(user_template, a.context, a.instructions)]>>
      \o FilterHistory(a.history)

Messages(system_prompt, user_template, a) ==
    <<[role |-> <<"system">>, content |-> system_prompt]>>
      \o FilterHistory(a.history)
      \o <<[role |-> <<"user">>,
            content |-> UserContent(user_template, a.context, a.instructions)]>>

----------------------------------------------------------------------------
\* Inputs

Turn(r, c) == [role |-> r, content |-> c, isdict |-> TRUE]

Histories ==
    { <<>>,
      << Turn(<<"system">>, <<"s">>), Turn(<<"user">>, <<"h">>) >> }

ModelArgs == {"", "m-arg"}
Sinks == {"none", "ok", "raises"}

\* The calls explored: either no optional argument or both
CallArgs ==
    {a \in [context : {<<"c">>}, instructions : {<<"i">>}, model : ModelArgs,
            history : Histories, on_delta : Sinks] :
       (a.model = "") <=> (a.history = <<>>)}

NoArgs ==
    [context |-> <<>>, instructions |-> <<>>, model |-> "", history |-> <<>>,
     on_delta |-> "none"]

\* llm.provider as the configuration file can set it
ProviderSettings ==
    { [t |-> "none", s |-> <<>>],
      [t |-> "str",  s |-> <<" ", "OpenAI">>],
      [t |-> "str",  s |-> <<"mistral">>],
      [t |-> "int",  s |-> <<>>] }

\* llm.use_streaming: "none" is an absent key
GateValues == {"true", "false", "none"}

Configs ==
    [provider : ProviderSettings, use_streaming : GateValues,
     model : {[p \in Providers |-> IF p = "openai" THEN "" ELSE "cfg-model"]},
     system_prompt : {[p \in Providers |-> <<>>]},
     user_prompt : {[p \in Providers |-> <<>>]}]

NoConfig ==
    [provider |-> [t |-> "none", s |-> <<>>], use_streaming |-> "none",
     model |-> [p \in Providers |-> ""],
     system_prompt |-> [p \in Providers |-> <<>>],
     user_prompt |-> [p \in Providers |-> <<>>]]

Envs ==
    [OPENAI_API_KEY : {"", "sk-openai"}, OPENROUTER_API_KEY : {"", "sk-or"},
     OPENAI_MODEL : {""}, OPENROUTER_MODEL : {"env-model"}]

\* Provider answers
Contents == {<<>>, <<" ">>, <<" ", "x", " ">>}

Body(k, c) == [kind |-> k, content |-> c]

Bodies ==
    {Body("invalid", <<>>), Body("nochoices", <<>>)}
      \cup {Body("ok", c) : c \in Contents}

Response(f, st, ct, b) == [fault |-> f, status |-> st, ctype |-> ct, body |-> b]

Fault == Response(TRUE, 0, "", Body("invalid", <<>>))

BlockingResponses ==
    {Fault, Response(FALSE, 500, "application/json", Body("invalid", <<>>))}
      \cup {Response(FALSE, 200, "application/json", b) : b \in Bodies}

StreamResponses ==
    {Fault, Response(FALSE, 500, "application/json", Body("invalid", <<>>)),
     Response(FALSE, 200, "text/event-stream; charset=utf-8", Body("invalid", <<>>))}
      \cup {Response(FALSE, 200, "application/json", b) : b \in Bodies}

Line(k, c) == [kind |-> k, content |-> c]

Fragments == {<<>>, <<"a">>, <<" ", "b">>}

FeedLines ==
    {Line("blank", <<>>), Line("comment", <<>>), Line("done", <<>>),
     Line("invalid", <<>>), Line("nochoices", <<>>)}
      \cup {Line("delta", f) : f \in Fragments}

NoLine == Line("none", <<>>)

\* A data line that json.loads rejects, or whose object has no choices or
\* no delta content
Malformed(l) ==
    l.kind \in {"invalid", "nochoices"} \/ (l.kind = "delta" /\ l.content = <<>>)

----------------------------------------------------------------------------
VARIABLES
    initialized,    \* ConfigManager._instance is not None
    config,         \* ConfigManager._instance.config (the keys the clients use)
    saved,          \* llm.use_streaming as the configuration file holds it
    env,            \* os.environ
    tripped,        \* a call of this session has disabled the gate
    has_llm,        \* config['llm'] is a dict
    threads,        \* the stream calls running side by side, at their fallback
    earlier,        \* what an earlier stream call of the session was given and did
    pc,             \* where the call in progress stands
    entry,          \* the function the caller invoked
    provider,       \* the provider whose client is running
    args,           \* the caller's arguments
    cancel_event,   \* "flag" when the streaming loop was given the caller's flag
    callerFlag,     \* the caller holds a cancellation flag for this call
    cancelSet,      \* that flag is set
    deltasAtCancel, \* number of on_delta calls made when the flag was set
    requests,       \* requests.post calls of this call, in order
    deltas,         \* on_delta calls of this call, in order
    full_text,      \* the streaming loop's accumulator
    linesRead,      \* lines iter_lines has yielded
    raw_line,       \* the line iter_lines yielded last
    deltasAtSkip,   \* number of on_delta calls made at the last malformed line
    streamResp,     \* the answer to the streaming request
    fbResp,         \* the answer to the blocking request
    closed,         \* resp.close() was called
    outcome,        \* the return statement the call ended at
    result,         \* what the caller got: a returned text or an exception
    gate_before     \* llm.use_streaming when the call started

vars ==
    <<initialized, config, saved, env, tripped, has_llm, threads, earlier, pc, entry, provider, args, cancel_event,
      callerFlag, cancelSet, deltasAtCancel, requests, deltas, full_text,
      linesRead, raw_line, deltasAtSkip, streamResp, fbResp, closed, outcome,
      result, gate_before>>

cfgVars ==
    <<initialized, config, saved, env, tripped, has_llm, threads, earlier>>

NoResponse == Response(FALSE, 0, "", Body("invalid", <<>>))
NoResult == [kind |-> "none", text |-> <<>>]
NoEarlier == [set |-> FALSE]
Returned(t) == [kind |-> "returned", text |-> t]
Raised == [kind |-> "raised", text |-> <<>>]

Init ==
    /\ initialized = FALSE
    /\ config = NoConfig
    /\ saved = "none"
    /\ env \in Envs
    /\ tripped = FALSE
    /\ has_llm = TRUE
    /\ threads = <<>>
    /\ earlier = NoEarlier
    /\ pc = "idle"
    /\ entry = "none"
    /\ provider = "none"
    /\ args = NoArgs
    /\ cancel_event = "none"
    /\ callerFlag = FALSE
    /\ cancelSet = FALSE
    /\ deltasAtCancel = -1
    /\ requests = <<>>
    /\ deltas = <<>>
    /\ full_text = <<>>
    /\ linesRead = 0
    /\ raw_line = NoLine
    /\ deltasAtSkip = -1
    /\ streamResp = NoResponse
    /\ fbResp = NoResponse
    /\ closed = FALSE
    /\ outcome = "none"
    /\ result = NoResult
    /\ gate_before = "none"

----------------------------------------------------------------------------
\* ConfigManager

\* get_config_value('llm', 'use_streaming'); None when the key is absent
Gate == IF initialized THEN config.use_streaming ELSE "none"

\* Variant: the write is not guarded and flips the setting
GateAfter_toggle(gate, text) ==
    IF text = <<>> THEN gate ELSE IF gate = "false" THEN "true" ELSE "false"

\* Variant: the write does not depend on the fallback's text
GateAfter_always(gate, text) == "false"

\* Variant: the fallback branches never write the gate
GateAfter_never(gate, text) == gate

\* The guarded write every fallback branch performs:
\*   if text and get_config_value('llm', 'use_streaming') is not False:
\*       set_config_value(False, 'llm', 'use_streaming')
GateAfter(gate, text) ==
    IF text # <<>> /\ gate # "false" THEN "false" ELSE gate

\* ... followed by save_config(), which can fail on the file system
SavedAfter(gate, text, saveOk) ==
    IF text # <<>> /\ gate # "false" /\ saveOk THEN "false" ELSE saved

\* Variant: the file is written first, so a failed write leaves the
\* setting in memory as it was
DisableGate_savefirst(text, saveOk) ==
    /\ config' = [config EXCEPT !.use_streaming =
                                  IF saveOk THEN GateAfter(@, text) ELSE @]
    /\ saved' = SavedAfter(config.use_streaming, text, saveOk)
    /\ tripped' = (tripped \/ config'.use_streaming # config.use_streaming)
    /\ UNCHANGED <<initialized, env, has_llm, threads, earlier>>

DisableGate(text, saveOk) ==
    /\ config' = [config EXCEPT !.use_streaming = GateAfter(@, text)]
    /\ saved' = SavedAfter(config.use_streaming, text, saveOk)
    /\ tripped' = (tripped \/ config'.use_streaming # config.use_streaming)
    /\ UNCHANGED <<initialized, env, has_llm, threads, earlier>>

\* ConfigManager.initialize(): defaults merged with the user's file
initialize ==
    /\ pc = "idle"
    /\ ~initialized
    /\ \E c \in Configs :
         /\ initialized' = TRUE
         /\ config' = c
         /\ saved' = c.use_streaming
    /\ UNCHANGED <<env, tripped, has_llm, threads, earlier, pc, entry, provider, args, cancel_event, callerFlag,
                   cancelSet, deltasAtCancel, requests, deltas, full_text,
                   linesRead, raw_line, deltasAtSkip, streamResp, fbResp,
                   closed, outcome, result, gate_before>>

----------------------------------------------------------------------------
\* Credential and model resolution

\* Variant: an empty credential is replaced by the other provider's
ApiKey_anykey(p) ==
    IF env[KeyVar(p)] # "" THEN env[KeyVar(p)]
    ELSE env[KeyVar(CHOOSE q \in Providers : q # p)]

\* os.getenv('<PROVIDER>_API_KEY') or ''
ApiKey(p) == env[KeyVar(p)]

\* model or configured_model or os.getenv(...) or default; the configured
\* value is None when get_config_value raised
ChosenModel(p, model) ==
    FirstTruthy(<<model, IF initialized THEN config.model[p] ELSE "",
                  env[ModelVar(p)], DefaultModel(p)>>)

SystemPrompt(p) ==
    IF config.system_prompt[p] # <<>> THEN config.system_prompt[p]
    ELSE DefaultSystemPrompt

UserTemplate(p) ==
    IF config.user_prompt[p] # <<>> THEN config.user_prompt[p]
    ELSE DefaultUserTemplate

Request(k, p, a) ==
    [kind |-> k, url |-> Url(p), key |-> ApiKey(p),
     model |-> ChosenModel(p, a.model),
     messages |-> Messages(SystemPrompt(p), UserTemplate(p), a),
     stream |-> (k = "stream"),
     timeout |-> IF k = "stream" THEN StreamTimeout ELSE BlockingTimeout]

\* Variant: the content is returned as the provider sent it
BlockingText_untrimmed(r) ==
    IF r.fault THEN <<>>
    ELSE IF r.status # 200 THEN <<>>
    ELSE IF r.body.kind # "ok" THEN <<>>
    ELSE r.body.content

\* What generate_with_* makes of the provider's answer
BlockingText(r) ==
    IF r.fault THEN <<>>
    ELSE IF r.status # 200 THEN <<>>
    ELSE IF r.body.kind # "ok" THEN <<>>
    ELSE Strip(r.body.content)

\* Tier 2: resp.json() of a body that is not an event feed
CompletionText(b) == IF b.kind = "ok" THEN Strip(b.content) ELSE <<>>

\* 'text/event-stream' in content_type.lower()
IsEventStream(ct) ==
    ct \in {"text/event-stream", "text/event-stream; charset=utf-8",
            "Text/Event-Stream"}

----------------------------------------------------------------------------
\* Call bookkeeping

Begin(e, p, a, ce, cf) ==
    /\ entry' = e
    /\ provider' = p
    /\ args' = a
    /\ cancel_event' = ce
    /\ callerFlag' = cf
    /\ cancelSet' = FALSE
    /\ deltasAtCancel' = -1
    /\ deltas' = <<>>
    /\ full_text' = <<>>
    /\ linesRead' = 0
    /\ raw_line' = NoLine
    /\ deltasAtSkip' = -1
    /\ streamResp' = NoResponse
    /\ fbResp' = NoResponse
    /\ closed' = FALSE
    /\ gate_before' = Gate
    /\ UNCHANGED cfgVars

Finish(o, r) ==
    /\ pc' = "done"
    /\ outcome' = o
    /\ result' = r

\* on_delta(text), with the try/except around it
Deliver(ds, sink, text) == IF sink # "none" THEN Append(ds, text) ELSE ds

----------------------------------------------------------------------------
\* Blocking client

generate_with(p, e, a) ==
    /\ Begin(e, p, a, "none", FALSE)
    /\ IF ApiKey(p) = ""
       THEN requests' = <<>> /\ Finish("missing_credential", Returned(<<>>))
       ELSE IF ~initialized
       THEN requests' = <<>> /\ Finish("fault", Returned(<<>>))
       ELSE /\ requests' = <<Request("blocking", p, a)>>
            /\ pc' = "gen_wait"
            /\ outcome' = "none"
            /\ result' = NoResult

GenArgs == {a \in CallArgs : a.on_delta = "none"}

generate_with_openai ==
    /\ pc = "idle"
    /\ \E a \in GenArgs : generate_with("openai", "generate_with_openai", a)

generate_with_openrouter ==
    /\ pc = "idle"
    /\ \E a \in GenArgs :
         generate_with("openrouter", "generate_with_openrouter", a)

\* requests.post returned or raised, in a direct blocking call
generate_response ==
    /\ pc = "gen_wait"
    /\ \E r \in BlockingResponses :
         /\ fbResp' = r
         /\ Finish("blocking", Returned(BlockingText(r)))
    /\ UNCHANGED <<cfgVars, entry, provider, args, cancel_event, callerFlag,
                   cancelSet, deltasAtCancel, requests, deltas, full_text,
                   linesRead, raw_line, deltasAtSkip, streamResp, closed,
                   gate_before>>

----------------------------------------------------------------------------
\* Provider router

\* get_config_value raises when ConfigManager was never initialised, and
\* .strip() raises on a setting that is not text
RouteRaises == ~initialized \/ config.provider.t = "int"

Route ==
    IF config.provider.t = "str" /\ config.provider.s # <<>>
         /\ Lower(Strip(config.provider.s)) = <<"openai">>
    THEN "openai" ELSE "openrouter"

generate_with_llm ==
    /\ pc = "idle"
    /\ \E a \in GenArgs :
         IF RouteRaises
         THEN /\ Begin("generate_with_llm", "none", a, "none", FALSE)
              /\ requests' = <<>>
              /\ Finish("raised", Raised)
         ELSE generate_with(Route, "generate_with_llm", a)

----------------------------------------------------------------------------
\* Streaming client

callFrame == <<entry, provider, args, cancel_event, callerFlag, gate_before>>

\* Variant: the streaming client posts without looking at the credential
stream_with_nokeycheck(p, e, a, ce, cf) ==
    /\ Begin(e, p, a, ce, cf)
    /\ IF ~initialized
       THEN requests' = <<>> /\ Finish("fault", Returned(<<>>))
       ELSE /\ requests' = <<Request("stream", p, a)>>
            /\ pc' = "stream_wait"
            /\ outcome' = "none"
            /\ result' = NoResult

\* From the top of stream_with_* to requests.post(..., stream=True)
stream_with(p, e, a, ce, cf) ==
    /\ Begin(e, p, a, ce, cf)
    /\ IF ApiKey(p) = ""
       THEN requests' = <<>> /\ Finish("missing_credential", Returned(<<>>))
       ELSE IF ~initialized
       THEN requests' = <<>> /\ Finish("fault", Returned(<<>>))
       ELSE /\ requests' = <<Request("stream", p, a)>>
            /\ pc' = "stream_wait"
            /\ outcome' = "none"
            /\ result' = NoResult

\* cancel_event is a parameter of stream_with_openai only
stream_with_openai ==
    /\ pc = "idle"
    /\ \E a \in CallArgs, cf \in BOOLEAN :
         stream_with("openai", "stream_with_openai", a,
                     IF cf THEN "flag" ELSE "none", cf)

stream_with_openrouter ==
    /\ pc = "idle"
    /\ \E a \in CallArgs :
         stream_with("openrouter", "stream_with_openrouter", a, "none", FALSE)

\* The router has no cancellation parameter and passes none on; a caller
\* that holds a flag (cf) cannot hand it to the provider's loop.
stream_with_llm ==
    /\ pc = "idle"
    /\ \E a \in CallArgs, cf \in BOOLEAN :
         IF RouteRaises
         THEN /\ Begin("stream_with_llm", "none", a, "none", cf)
              /\ requests' = <<>>
              /\ Finish("raised", Raised)
         ELSE stream_with(Route, "stream_with_llm", a, "none", cf)

ReturnNow(o, text) ==
    /\ Finish(o, Returned(text))
    /\ UNCHANGED <<requests, deltas, cfgVars>>

\* The arguments of the fallback call: model=chosen_model, the rest as given
FallbackArgs == [args EXCEPT !.model = ChosenModel(provider, args.model)]

\* Variant: the fallback calls the streaming client again
Fallback_restream(tier) ==
    IF ApiKey(provider) # "" /\ initialized
    THEN /\ requests' = Append(requests, Request("stream", provider, FallbackArgs))
         /\ pc' = "stream_wait"
         /\ outcome' = tier
         /\ result' = NoResult
         /\ UNCHANGED <<deltas, cfgVars>>
    ELSE ReturnNow(tier, <<>>)

\* fallback_text = generate_with_openai(...): up to its requests.post
Fallback(tier) ==
    IF ApiKey(provider) # "" /\ initialized
    THEN /\ requests' = Append(requests, Request("blocking", provider, FallbackArgs))
         /\ pc' = "fb_wait"
         /\ outcome' = tier
         /\ result' = NoResult
         /\ UNCHANGED <<deltas, cfgVars>>
    ELSE ReturnNow(tier, <<>>)

\* Variant: no try/except around on_delta, so a sink that raises sends the
\* call to the outer except
FinishDegraded_sinkfault(o, text, saveOk) ==
    /\ DisableGate(text, saveOk)
    /\ deltas' = IF text # <<>> THEN Deliver(deltas, args.on_delta, text) ELSE deltas
    /\ IF text # <<>> /\ args.on_delta = "raises"
       THEN Finish("fault", Returned(<<>>))
       ELSE Finish(o, Returned(text))
    /\ UNCHANGED requests

\* Variant: the fallback text is returned without being forwarded
FinishDegraded_silent(o, text, saveOk) ==
    /\ DisableGate(text, saveOk)
    /\ deltas' = deltas
    /\ Finish(o, Returned(text))
    /\ UNCHANGED requests

\* Variant: the fallback text is forwarded without testing it for emptiness
FinishDegraded_always(o, text, saveOk) ==
    /\ DisableGate(text, saveOk)
    /\ deltas' = Deliver(deltas, args.on_delta, text)
    /\ Finish(o, Returned(text))
    /\ UNCHANGED requests

\* The code after a fallback (or after the Tier 2 parse) produced its text:
\* guarded gate write, on_delta once if the text is non-empty, return
FinishDegraded(o, text, saveOk) ==
    /\ DisableGate(text, saveOk)
    /\ deltas' = IF text # <<>> THEN Deliver(deltas, args.on_delta, text) ELSE deltas
    /\ Finish(o, Returned(text))
    /\ UNCHANGED requests

\* Variant: the loop's text is not tested before the empty-stream fallback
AfterLoop_always ==
    IF provider = "openai" THEN Fallback("tier4")
    ELSE ReturnNow("empty_stream", full_text)

\* Variant: the accumulated text is trimmed like a blocking result
AfterLoop_trimmed ==
    IF full_text # <<>> THEN ReturnNow("tier3", Strip(full_text))
    ELSE IF provider = "openai" THEN Fallback("tier4")
    ELSE ReturnNow("empty_stream", full_text)

\* After the for loop over resp.iter_lines
AfterLoop ==
    IF full_text # <<>> THEN ReturnNow("tier3", full_text)
    ELSE IF provider = "openai" THEN Fallback("tier4")
    ELSE ReturnNow("empty_stream", full_text)

\* requests.post(..., stream=True) returned or raised
stream_response ==
    /\ pc = "stream_wait"
    /\ \E r \in StreamResponses, saveOk \in BOOLEAN :
         /\ streamResp' = r
         /\ IF r.fault THEN ReturnNow("fault", <<>>)
            ELSE IF r.status # 200
            THEN IF provider = "openai" THEN Fallback("tier1")
                 ELSE ReturnNow("http_error", <<>>)
            ELSE IF provider = "openai" /\ ~IsEventStream(r.ctype)
            THEN IF CompletionText(r.body) # <<>>
                 THEN FinishDegraded("tier2", CompletionText(r.body), saveOk)
                 ELSE Fallback("tier2_fallback")
            ELSE /\ pc' = "iter"
                 /\ UNCHANGED <<outcome, result, requests, deltas, cfgVars>>
    /\ UNCHANGED <<callFrame, cancelSet, deltasAtCancel, full_text, linesRead,
                   raw_line, deltasAtSkip, fbResp, closed>>

\* The blocking request of a fallback returned or raised
fallback_response ==
    /\ pc = "fb_wait"
    /\ \E r \in BlockingResponses, saveOk \in BOOLEAN :
         /\ fbResp' = r
         /\ FinishDegraded(outcome, BlockingText(r), saveOk)
    /\ UNCHANGED <<callFrame, cancelSet, deltasAtCancel, full_text, linesRead,
                   raw_line, deltasAtSkip, streamResp, closed>>

\* Variant: the flag is looked at after a line was processed, not before
CancelSeen_afterfirst ==
    provider = "openai" /\ cancel_event = "flag" /\ cancelSet /\ linesRead > 0

\* Variant: the loop never looks at the flag
CancelSeen_never == FALSE

\* cancel_event is not None and cancel_event.is_set()
CancelSeen == provider = "openai" /\ cancel_event = "flag" /\ cancelSet

\* Variant: on_delta is given the text accumulated so far
DeltaArg_accumulated(ft, piece) == ft \o piece

\* on_delta(content_piece): the sink gets the fragment alone
DeltaArg(ft, piece) == piece

\* Variant: no try/except around the parse of one line, so a malformed
\* line reaches the outer except
feed_line_abort ==
    /\ pc = "iter"
    /\ linesRead < MaxLines
    /\ linesRead' = linesRead + 1
    /\ \E l \in FeedLines :
         /\ raw_line' = l
         /\ deltasAtSkip' = IF ~CancelSeen /\ Malformed(l) THEN Len(deltas)
                            ELSE deltasAtSkip
         /\ IF CancelSeen
            THEN /\ closed' = TRUE
                 /\ ReturnNow("cancelled", full_text)
                 /\ UNCHANGED full_text
            ELSE IF l.kind = "done"
            THEN AfterLoop /\ UNCHANGED <<full_text, closed>>
            ELSE IF l.kind = "delta" /\ l.content # <<>>
            THEN /\ full_text' = full_text \o l.content
                 /\ deltas' = Deliver(deltas, args.on_delta,
                                      DeltaArg(full_text, l.content))
                 /\ UNCHANGED <<pc, outcome, result, requests, cfgVars, closed>>
            ELSE IF Malformed(l)
            THEN ReturnNow("fault", <<>>) /\ UNCHANGED <<full_text, closed>>
            ELSE UNCHANGED <<pc, outcome, result, requests, deltas, cfgVars,
                             full_text, closed>>
    /\ UNCHANGED <<callFrame, cancelSet, deltasAtCancel, streamResp, fbResp>>

\* One line from resp.iter_lines
feed_line ==
    /\ pc = "iter"
    /\ linesRead < MaxLines
    /\ linesRead' = linesRead + 1
    /\ \E l \in FeedLines :
         /\ raw_line' = l
         /\ deltasAtSkip' = IF ~CancelSeen /\ Malformed(l) THEN Len(deltas)
                            ELSE deltasAtSkip
         /\ IF CancelSeen
            THEN /\ closed' = TRUE
                 /\ ReturnNow("cancelled", full_text)
                 /\ UNCHANGED full_text
            ELSE IF l.kind = "done"
            THEN AfterLoop /\ UNCHANGED <<full_text, closed>>
            ELSE IF l.kind = "delta" /\ l.content # <<>>
            THEN /\ full_text' = full_text \o l.content
                 /\ deltas' = Deliver(deltas, args.on_delta,
                                      DeltaArg(full_text, l.content))
                 /\ UNCHANGED <<pc, outcome, result, requests, cfgVars, closed>>
            ELSE UNCHANGED <<pc, outcome, result, requests, deltas, cfgVars,
                             full_text, closed>>
    /\ UNCHANGED <<callFrame, cancelSet, deltasAtCancel, streamResp, fbResp>>

\* iter_lines is exhausted: the provider closed the feed
feed_end ==
    /\ pc = "iter"
    /\ AfterLoop
    /\ UNCHANGED <<callFrame, cancelSet, deltasAtCancel, full_text, linesRead,
                   raw_line, deltasAtSkip, streamResp, fbResp, closed>>

\* iter_lines raises (connection reset, read timeout): the outer except
feed_fault ==
    /\ pc = "iter"
    /\ ReturnNow("fault", <<>>)
    /\ UNCHANGED <<callFrame, cancelSet, deltasAtCancel, full_text, linesRead,
                   raw_line, deltasAtSkip, streamResp, fbResp, closed>>

\* The caller sets its cancellation flag while the call runs
set_cancel ==
    /\ pc \in {"stream_wait", "iter", "fb_wait"}
    /\ callerFlag
    /\ ~cancelSet
    /\ cancelSet' = TRUE
    /\ deltasAtCancel' = Len(deltas)
    /\ UNCHANGED <<cfgVars, pc, callFrame, requests, deltas, full_text,
                   linesRead, raw_line, deltasAtSkip, streamResp, fbResp,
                   closed, outcome, result>>

\* The caller takes the result
call_return ==
    /\ pc = "done"
    /\ pc' = "idle"
    /\ entry' = "none"
    /\ provider' = "none"
    /\ args' = NoArgs
    /\ cancel_event' = "none"
    /\ callerFlag' = FALSE
    /\ cancelSet' = FALSE
    /\ deltasAtCancel' = -1
    /\ requests' = <<>>
    /\ deltas' = <<>>
    /\ full_text' = <<>>
    /\ linesRead' = 0
    /\ raw_line' = NoLine
    /\ deltasAtSkip' = -1
    /\ streamResp' = NoResponse
    /\ fbResp' = NoResponse
    /\ closed' = FALSE
    /\ outcome' = "none"
    /\ result' = NoResult
    /\ gate_before' = "none"
    /\ UNCHANGED cfgVars

Next ==
    \/ initialize
    \/ generate_with_openai
    \/ generate_with_openrouter
    \/ generate_with_llm
    \/ generate_response
    \/ stream_with_openai
    \/ stream_with_openrouter
    \/ stream_with_llm
    \/ stream_response
    \/ fallback_response
    \/ feed_line
    \/ feed_end
    \/ feed_fault
    \/ set_cancel
    \/ call_return

Spec == Init /\ [][Next]_vars

----------------------------------------------------------------------------
\* Stream calls on several threads, each at the gate write of a fallback tier

Threads == 1..NThreads

callVars ==
    <<pc, entry, provider, args, cancel_event, callerFlag, cancelSet,
      deltasAtCancel, requests, deltas, full_text, linesRead, raw_line,
      deltasAtSkip, streamResp, fbResp, closed, outcome, result, gate_before>>

\* fallback_text, the value the gate test read, and whether the dict that
\* set_config_value holds is the one config['llm'] names
Thread(l, t, g, r) == [pc |-> l, text |-> t, seen |-> g, ref |-> r]

ThreadsInit ==
    /\ initialized = TRUE
    /\ has_llm \in BOOLEAN
    /\ config \in {c \in Configs \cup {NoConfig} :
                     /\ c.provider = NoConfig.provider
                     /\ has_llm = (c # NoConfig)}
    /\ saved = config.use_streaming
    /\ env = [OPENAI_API_KEY |-> "sk-openai", OPENROUTER_API_KEY |-> "",
              OPENAI_MODEL |-> "", OPENROUTER_MODEL |-> "env-model"]
    /\ tripped = FALSE
    /\ threads = [t \in Threads |-> Thread("fallback", <<>>, "none", "none")]
    /\ earlier = NoEarlier
    /\ pc = "idle"
    /\ entry = "none"
    /\ provider = "none"
    /\ args = NoArgs
    /\ cancel_event = "none"
    /\ callerFlag = FALSE
    /\ cancelSet = FALSE
    /\ deltasAtCancel = -1
    /\ requests = <<>>
    /\ deltas = <<>>
    /\ full_text = <<>>
    /\ linesRead = 0
    /\ raw_line = NoLine
    /\ deltasAtSkip = -1
    /\ streamResp = NoResponse
    /\ fbResp = NoResponse
    /\ closed = FALSE
    /\ outcome = "none"
    /\ result = NoResult
    /\ gate_before = config.use_streaming

At(t, l) == threads[t].pc = l

Goto(t, l) == threads' = [threads EXCEPT ![t].pc = l]

\* Variant: the gate is tested for truth, so an unset gate is never written
ShouldDisable_truthy(text, gate) == text # <<>> /\ gate = "true"

\* fallback_text and (get_config_value('llm', 'use_streaming') is not False)
ShouldDisable(text, gate) == text # <<>> /\ gate # "false"

\* fallback_text = generate_with_openai(...)
thread_fallback(t) ==
    /\ At(t, "fallback")
    /\ \E text \in {<<>>, <<"x">>} :
         threads' = [threads EXCEPT ![t].text = text, ![t].pc = "test"]
    /\ UNCHANGED <<initialized, config, saved, env, tripped, has_llm, earlier, callVars>>

\* the test in front of the gate write
thread_test(t) ==
    /\ At(t, "test")
    /\ threads' = [threads EXCEPT
                     ![t].seen = Gate,
                     ![t].pc = IF ShouldDisable(threads[t].text, Gate)
                               THEN "set_key" ELSE "deliver"]
    /\ UNCHANGED <<initialized, config, saved, env, tripped, has_llm, earlier, callVars>>

\* set_config_value: the test of 'llm' in the loop over keys[:-1]
thread_set_key(t) ==
    /\ At(t, "set_key")
    /\ Goto(t, IF has_llm THEN "set_descend" ELSE "set_create")
    /\ UNCHANGED <<initialized, config, saved, env, tripped, has_llm, earlier, callVars>>

\* set_config_value: config['llm'] = {}; the dict it replaces is detached
thread_set_create(t) ==
    /\ At(t, "set_create")
    /\ has_llm' = TRUE
    /\ config' = NoConfig
    /\ threads' = [u \in Threads |->
                     IF u = t THEN [threads[u] EXCEPT !.pc = "set_descend"]
                     ELSE IF threads[u].ref = "live"
                     THEN [threads[u] EXCEPT !.ref = "detached"]
                     ELSE threads[u]]
    /\ UNCHANGED <<initialized, saved, env, tripped, earlier, callVars>>

\* set_config_value: config = config['llm']
thread_set_descend(t) ==
    /\ At(t, "set_descend")
    /\ threads' = [threads EXCEPT ![t].ref = "live", ![t].pc = "set_store"]
    /\ UNCHANGED <<initialized, config, saved, env, tripped, has_llm, earlier, callVars>>

\* set_config_value: config['use_streaming'] = False
thread_set_store(t) ==
    /\ At(t, "set_store")
    /\ IF threads[t].ref = "live"
       THEN /\ config' = [config EXCEPT !.use_streaming = "false"]
            /\ tripped' = (tripped \/ config.use_streaming # "false")
       ELSE UNCHANGED <<config, tripped>>
    /\ Goto(t, "save")
    /\ UNCHANGED <<initialized, saved, env, has_llm, earlier, callVars>>

\* save_config: the file gets the configuration of this moment, or the
\* write fails and the except clause around the gate write swallows it
thread_save_config(t) ==
    /\ At(t, "save")
    /\ \E saveOk \in BOOLEAN :
         saved' = IF saveOk THEN config.use_streaming ELSE saved
    /\ Goto(t, "deliver")
    /\ UNCHANGED <<initialized, config, env, tripped, has_llm, earlier, callVars>>

\* on_delta(fallback_text); return fallback_text
thread_return(t) ==
    /\ At(t, "deliver")
    /\ Goto(t, "done")
    /\ UNCHANGED <<initialized, config, saved, env, tripped, has_llm, earlier, callVars>>

ThreadsNext ==
    \E t \in Threads :
        \/ thread_fallback(t)
        \/ thread_test(t)
        \/ thread_set_key(t)
        \/ thread_set_create(t)
        \/ thread_set_descend(t)
        \/ thread_set_store(t)
        \/ thread_save_config(t)
        \/ thread_return(t)

ThreadsSpec == ThreadsInit /\ [][ThreadsNext]_vars

----------------------------------------------------------------------------
\* Message assembly over wider inputs: the same clients, called with
\* histories of up to MaxHistory entries under configured prompts

\* history_messages: List[Dict[str, str]]
HistoryEntries ==
    { Turn(<<"user">>, <<"h">>),
      Turn(<<"assistant">>, <<" ", "k", " ">>),
      Turn(<<"system">>, <<"s">>),
      Turn(<<"tool">>, <<"t">>),
      Turn(<<" ", "user">>, <<"w">>),
      Turn(<<"user">>, <<" ">>),
      Turn(<<"assistant">>, <<>>) }

RECURSIVE SeqsUpTo(_, _)
SeqsUpTo(S, n) ==
    IF n = 0 THEN {<<>>}
    ELSE LET shorter == SeqsUpTo(S, n - 1)
         IN  shorter \cup {Append(h, e) : h \in shorter, e \in S}

LongHistories == SeqsUpTo(HistoryEntries, MaxHistory)

\* <provider>.user_prompt as the configuration file can set it
Templates ==
    { <<>>,
      <<"{context}">>,
      <<"do: ", "{instructions}">>,
      <<"{instructions}", " on ", "{context}">>,
      <<"plain">>,
      <<"{x}", "{context}", "{instructions}">>,
      <<"{">> }

\* <provider>.system_prompt as the configuration file can set it
SystemPrompts == {<<>>, <<" ", "sys", " ">>}

MessageConfigs ==
    {[NoConfig EXCEPT !.system_prompt = [p \in Providers |-> sp],
                      !.user_prompt = [p \in Providers |-> t]] :
       sp \in SystemPrompts, t \in Templates}

MessageArgs ==
    [context : {<<"c">>}, instructions : {<<"i">>}, model : {""},
     history : LongHistories, on_delta : {"none"}]

MessagesInit ==
    /\ initialized = TRUE
    /\ config \in MessageConfigs
    /\ saved = config.use_streaming
    /\ env = [OPENAI_API_KEY |-> "sk-openai", OPENROUTER_API_KEY |-> "sk-or",
              OPENAI_MODEL |-> "", OPENROUTER_MODEL |-> "env-model"]
    /\ tripped = FALSE
    /\ has_llm = TRUE
    /\ threads = <<>>
    /\ earlier = NoEarlier
    /\ pc = "idle"
    /\ entry = "none"
    /\ provider = "none"
    /\ args = NoArgs
    /\ cancel_event = "none"
    /\ callerFlag = FALSE
    /\ cancelSet = FALSE
    /\ deltasAtCancel = -1
    /\ requests = <<>>
    /\ deltas = <<>>
    /\ full_text = <<>>
    /\ linesRead = 0
    /\ raw_line = NoLine
    /\ deltasAtSkip = -1
    /\ streamResp = NoResponse
    /\ fbResp = NoResponse
    /\ closed = FALSE
    /\ outcome = "none"
    /\ result = NoResult
    /\ gate_before = "none"

\* generate_with_openai / generate_with_openrouter
generate_with_history ==
    /\ pc = "idle"
    /\ \E p \in Providers, a \in MessageArgs :
         generate_with(p, IF p = "openai" THEN "generate_with_openai"
                          ELSE "generate_with_openrouter", a)

\* stream_with_openai / stream_with_openrouter
stream_with_history ==
    /\ pc = "idle"
    /\ \E p \in Providers, a \in MessageArgs :
         stream_with(p, IF p = "openai" THEN "stream_with_openai"
                        ELSE "stream_with_openrouter", a, "none", FALSE)

MessagesNext ==
    \/ generate_with_history
    \/ stream_with_history
    \/ generate_response
    \/ stream_response
    \/ fallback_response
    \/ feed_end
    \/ call_return

MessagesSpec == MessagesInit /\ [][MessagesNext]_vars

----------------------------------------------------------------------------
\* Two stream calls of one session, one per provider, on the same arguments

StreamArgs ==
    [context |-> <<"c">>, instructions |-> <<"i">>, model |-> "",
     history |-> <<>>, on_delta |-> "ok"]

PairInit ==
    /\ initialized = TRUE
    /\ config \in {c \in Configs : c.provider = NoConfig.provider}
    /\ saved = config.use_streaming
    /\ env = [OPENAI_API_KEY |-> "sk-openai", OPENROUTER_API_KEY |-> "sk-or",
              OPENAI_MODEL |-> "", OPENROUTER_MODEL |-> "env-model"]
    /\ tripped = FALSE
    /\ has_llm = TRUE
    /\ threads = <<>>
    /\ earlier = NoEarlier
    /\ pc = "idle"
    /\ entry = "none"
    /\ provider = "none"
    /\ args = NoArgs
    /\ cancel_event = "none"
    /\ callerFlag = FALSE
    /\ cancelSet = FALSE
    /\ deltasAtCancel = -1
    /\ requests = <<>>
    /\ deltas = <<>>
    /\ full_text = <<>>
    /\ linesRead = 0
    /\ raw_line = NoLine
    /\ deltasAtSkip = -1
    /\ streamResp = NoResponse
    /\ fbResp = NoResponse
    /\ closed = FALSE
    /\ outcome = "none"
    /\ result = NoResult
    /\ gate_before = "none"

\* stream_with_openai(...) or stream_with_openrouter(...), without a flag
stream_call ==
    /\ pc = "idle"
    /\ \E p \in Providers :
         stream_with(p, IF p = "openai" THEN "stream_with_openai"
                        ELSE "stream_with_openrouter", StreamArgs, "none", FALSE)

\* What the call in progress was given (the gate, the provider's answers)
\* and what it did
Observation ==
    [set |-> TRUE, provider |-> provider, gate_before |-> gate_before,
     streamResp |-> streamResp, linesRead |-> linesRead, raw_line |-> raw_line,
     fbResp |-> fbResp, nreq |-> Len(requests), result |-> result,
     deltas |-> deltas, gate |-> Gate]

\* The caller takes the result and keeps it to compare
call_observed ==
    /\ pc = "done"
    /\ ~earlier.set
    /\ linesRead <= 1
    /\ earlier' = Observation
    /\ pc' = "idle"
    /\ entry' = "none"
    /\ provider' = "none"
    /\ args' = NoArgs
    /\ cancel_event' = "none"
    /\ callerFlag' = FALSE
    /\ cancelSet' = FALSE
    /\ deltasAtCancel' = -1
    /\ requests' = <<>>
    /\ deltas' = <<>>
    /\ full_text' = <<>>
    /\ linesRead' = 0
    /\ raw_line' = NoLine
    /\ deltasAtSkip' = -1
    /\ streamResp' = NoResponse
    /\ fbResp' = NoResponse
    /\ closed' = FALSE
    /\ outcome' = "none"
    /\ result' = NoResult
    /\ gate_before' = "none"
    /\ UNCHANGED <<initialized, config, saved, env, tripped, has_llm, threads>>

PairNext ==
    \/ stream_call
    \/ stream_response
    \/ fallback_response
    \/ feed_line
    \/ feed_end
    \/ call_observed
    \/ call_return

PairSpec == PairInit /\ [][PairNext]_vars

----------------------------------------------------------------------------
\* Stream calls of the OpenAI client under a provider that answers: each
\* request gets its answer or its timeout (timeout=90 and timeout=45 bound
\* the wait), and the feed yields a line, closes or fails

LiveInit ==
    /\ initialized = TRUE
    /\ config \in {c \in Configs : c.provider = NoConfig.provider}
    /\ saved = config.use_streaming
    /\ env \in {e \in Envs : e["OPENROUTER_API_KEY"] = ""}
    /\ tripped = FALSE
    /\ has_llm = TRUE
    /\ threads = <<>>
    /\ earlier = NoEarlier
    /\ pc = "idle"
    /\ entry = "none"
    /\ provider = "none"
    /\ args = NoArgs
    /\ cancel_event = "none"
    /\ callerFlag = FALSE
    /\ cancelSet = FALSE
    /\ deltasAtCancel = -1
    /\ requests = <<>>
    /\ deltas = <<>>
    /\ full_text = <<>>
    /\ linesRead = 0
    /\ raw_line = NoLine
    /\ deltasAtSkip = -1
    /\ streamResp = NoResponse
    /\ fbResp = NoResponse
    /\ closed = FALSE
    /\ outcome = "none"
    /\ result = NoResult
    /\ gate_before = "none"

\* stream_with_openai(..., on_delta=f), with or without a cancellation flag
stream_call_openai ==
    /\ pc = "idle"
    /\ \E cf \in BOOLEAN :
         stream_with("openai", "stream_with_openai", StreamArgs,
                     IF cf THEN "flag" ELSE "none", cf)

feed_step == feed_line \/ feed_end \/ feed_fault

LiveNext ==
    \/ stream_call_openai
    \/ stream_response
    \/ fallback_response
    \/ feed_line
    \/ feed_end
    \/ feed_fault
    \/ set_cancel
    \/ call_return

LiveSpec ==
    /\ LiveInit
    /\ [][LiveNext]_vars
    /\ WF_vars(stream_response)
    /\ WF_vars(fallback_response)
    /\ WF_vars(feed_step)

----------------------------------------------------------------------------
\* Properties

StreamEntries == {"stream_with_openai", "stream_with_openrouter", "stream_with_llm"}

\* A response with status 0 stands for "no response yet"
HttpError(r) == ~r.fault /\ r.status \notin {0, 200}
Ok(r) == ~r.fault /\ r.status = 200

HasSink == args.on_delta # "none"

\* What a completed degradation to the blocking client looks like: one
\* streaming and one blocking request, the blocking client's text returned,
\* forwarded once iff non-empty, the gate disabled iff non-empty
Delegated ==
    /\ Len(requests) = 2
    /\ requests[1].kind = "stream"
    /\ requests[2] = Request("blocking", provider, args)
    /\ result = Returned(BlockingText(fbResp))
    /\ deltas = IF result.text # <<>> /\ HasSink THEN <<result.text>> ELSE <<>>
    /\ result.text # <<>> => Gate = "false"
    /\ result.text = <<>> => Gate = gate_before

\* C1: a call made while the provider's credential is absent or empty ends
\* at once with the empty string, no request, no delta and the gate as it was,
\* in the blocking and in the streaming client of every provider.
Thm_C1 ==
    (pc # "idle" /\ provider \in Providers /\ ApiKey(provider) = "")
      => /\ pc = "done"
         /\ result = Returned(<<>>)
         /\ requests = <<>>
         /\ deltas = <<>>
         /\ Gate = gate_before

Wit_C1 ==
    /\ pc = "done"
    /\ entry = "stream_with_openrouter"
    /\ ApiKey("openrouter") = ""
    /\ ApiKey("openai") # ""
    /\ args.on_delta = "ok"
    /\ Gate = "true"

\* C2: every routed call (generate_with_llm, stream_with_llm) ends by
\* returning a text; no failure reaches the caller as an exception.
Cex_C2 ==
    (pc = "done" /\ entry \in {"generate_with_llm", "stream_with_llm"})
      => result.kind = "returned"

\* C3: Tier 1, every provider: a non-success status on the streaming request
\* makes stream issue the blocking request with the same arguments, return
\* what the blocking client returns, and disable the gate when that text is
\* non-empty.
Cex_C3 ==
    (pc = "done" /\ entry \in StreamEntries /\ HttpError(streamResp))
      => /\ Len(requests) = 2
         /\ requests[2] = Request("blocking", provider, args)
         /\ result = Returned(BlockingText(fbResp))
         /\ result.text # <<>> => Gate = "false"

\* C4: a timeout or other transport fault raised by the streaming request is
\* handled like Tier 1: blocking fallback, its non-empty text forwarded once,
\* the gate disabled on a non-empty result, the fallback text returned.
Cex_C4 ==
    (pc = "done" /\ entry \in StreamEntries /\ streamResp.fault)
      => /\ Len(requests) = 2
         /\ requests[2].kind = "blocking"
         /\ result = Returned(BlockingText(fbResp))
         /\ (result.text # <<>> /\ HasSink) => deltas = <<result.text>>
         /\ result.text # <<>> => Gate = "false"

\* C5: Tier 2 success (stream_with_openai): status 200, a content type that
\* is not an event feed, and a body whose first choice has non-empty trimmed
\* content: on_delta is called exactly once with that text, the gate is
\* disabled, that text is returned and no second request is made.
Thm_C5 ==
    (pc # "idle" /\ provider = "openai" /\ Ok(streamResp)
       /\ ~IsEventStream(streamResp.ctype) /\ streamResp.body.kind = "ok"
       /\ Strip(streamResp.body.content) # <<>>)
      => /\ pc = "done"
         /\ HasSink => deltas = <<Strip(streamResp.body.content)>>
         /\ Gate = "false"
         /\ result = Returned(Strip(streamResp.body.content))
         /\ Len(requests) = 1
         /\ requests[1].kind = "stream"

Wit_C5 ==
    /\ pc = "done"
    /\ provider = "openai"
    /\ Ok(streamResp)
    /\ streamResp.ctype = "application/json"
    /\ streamResp.body = Body("ok", <<" ", "x", " ">>)
    /\ deltas = << <<"x">> >>
    /\ gate_before = "true"

\* C6: Tier 2 sub-branch (stream_with_openai): status 200, not an event
\* feed, and a body that does not parse or has no choice or empty content:
\* the blocking client is called exactly once, its result is returned,
\* on_delta is called once iff that result is non-empty and the gate is
\* disabled iff it is non-empty.
Thm_C6 ==
    (pc = "done" /\ provider = "openai" /\ Ok(streamResp)
       /\ ~IsEventStream(streamResp.ctype)
       /\ (streamResp.body.kind \in {"invalid", "nochoices"}
             \/ Strip(streamResp.body.content) = <<>>))
      => Delegated

Wit_C6 ==
    /\ pc = "done"
    /\ provider = "openai"
    /\ Ok(streamResp)
    /\ streamResp.body = Body("ok", <<" ">>)
    /\ args.on_delta = "ok"
    /\ result.text = <<"x">>
    /\ gate_before = "none"

\* C7: Tier 4, every provider: when the iteration over an event feed ends
\* with no accumulated text and without cancellation, stream delegates to the
\* blocking client, forwards its text once iff non-empty, disables the gate
\* iff non-empty and returns it.
Cex_C7 ==
    (pc = "done" /\ entry \in StreamEntries /\ Ok(streamResp)
       /\ IsEventStream(streamResp.ctype) /\ full_text = <<>>
       /\ outcome \notin {"cancelled", "fault"})
      => Delegated

\* C8: when the loop has accumulated non-empty text and ends normally, stream
\* returns that text untrimmed (the concatenation of the fragments it
\* delivered), makes no blocking request and leaves the gate as it was.
Thm_C8 ==
    (pc = "done" /\ entry \in StreamEntries /\ full_text # <<>>
       /\ outcome \notin {"cancelled", "fault"})
      => /\ result = Returned(full_text)
         /\ HasSink => result.text = Concat(deltas)
         /\ Len(requests) = 1
         /\ requests[1].kind = "stream"
         /\ Gate = gate_before

Wit_C8 ==
    /\ pc = "done"
    /\ outcome = "tier3"
    /\ provider = "openrouter"
    /\ deltas = << <<" ", "b">>, <<"a">> >>
    /\ result.text = <<" ", "b", "a">>
    /\ gate_before = "true"

\* C9: cancellation in the loop of stream_with_openai: the flag is looked at
\* before each line is processed; once it is set, the next line is not
\* processed: the transport is closed, the text returned is the
\* concatenation of the fragments delivered so far, no delta is delivered,
\* no blocking request is made and the gate is not changed.
Thm_C9 ==
    [][(pc = "iter" /\ entry = "stream_with_openai" /\ callerFlag /\ cancelSet
          /\ linesRead' = linesRead + 1)
        => /\ pc' = "done"
           /\ closed'
           /\ result' = Returned(full_text)
           /\ HasSink => result'.text = Concat(deltas)
           /\ deltas' = deltas
           /\ requests' = requests
           /\ Len(requests) = 1
           /\ config' = config
           /\ Gate' = gate_before]_vars

Wit_C9 ==
    /\ pc = "done"
    /\ outcome = "cancelled"
    /\ entry = "stream_with_openai"
    /\ deltasAtCancel = 2
    /\ deltas = << <<"a">>, <<" ", "b">> >>
    /\ result.text = <<"a", " ", "b">>

\* C10: a cancellation flag the caller supplies to the routed stream call
\* reaches the provider's loop: once it is set mid-stream, the next line is
\* not processed, no delta follows and the partial text is returned.
Cex_C10 ==
    [][(pc = "iter" /\ entry = "stream_with_llm" /\ callerFlag /\ cancelSet
          /\ linesRead' = linesRead + 1)
        => /\ pc' = "done"
           /\ deltas' = deltas
           /\ result' = Returned(full_text)]_vars

\* A step that takes one line from the feed
LineStep == pc = "iter" /\ linesRead' = linesRead + 1

\* The loop was given the caller's flag and the flag is set
Flagged == entry = "stream_with_openai" /\ callerFlag /\ cancelSet

\* A data line that parses and carries a non-empty fragment
WellFormed(l) == l.kind = "delta" /\ l.content # <<>>

\* C11: a malformed data line (invalid JSON, no choices, no delta content)
\* never aborts the stream and contributes nothing; a well-formed fragment
\* that follows it is still accumulated and delivered, and on normal
\* completion the returned text is the concatenation of the fragments.
Thm_C11 ==
    /\ [][(LineStep /\ ~Flagged /\ Malformed(raw_line'))
            => /\ pc' = "iter"
               /\ deltas' = deltas
               /\ full_text' = full_text
               /\ requests' = requests]_vars
    /\ [][(LineStep /\ ~Flagged /\ deltasAtSkip >= 0 /\ WellFormed(raw_line'))
            => /\ pc' = "iter"
               /\ full_text' = full_text \o raw_line'.content
               /\ HasSink => deltas' = Append(deltas, raw_line'.content)]_vars
    /\ [](pc = "done" /\ outcome = "tier3" /\ HasSink
            => result.text = Concat(deltas))

Wit_C11 ==
    /\ pc = "done"
    /\ outcome = "tier3"
    /\ provider = "openrouter"
    /\ linesRead = 3
    /\ deltasAtSkip = 1
    /\ deltas = << <<"a">>, <<" ", "b">> >>
    /\ result.text = <<"a", " ", "b">>

\* C12: in a call that reaches the loop, on_delta is called with exactly the
\* non-empty fragments of the well-formed data lines before the sentinel, in
\* arrival order, once each and with the fragment alone; the sentinel ends
\* the iteration, so no later line is processed; and on normal completion
\* the returned text is the concatenation of the delivered fragments.
Thm_C12 ==
    /\ [][(LineStep /\ ~Flagged)
            => /\ WellFormed(raw_line')
                    => /\ pc' = "iter"
                       /\ deltas' = IF HasSink
                                    THEN Append(deltas, raw_line'.content)
                                    ELSE deltas
               /\ raw_line'.kind = "done" => (pc' # "iter" /\ deltas' = deltas)
               /\ (~WellFormed(raw_line') /\ raw_line'.kind # "done")
                    => (pc' = "iter" /\ deltas' = deltas)]_vars
    /\ [][linesRead' = linesRead + 1 => (pc = "iter" /\ raw_line.kind # "done")]_vars
    /\ [](pc = "done" /\ outcome = "tier3" /\ HasSink
            => (result.text = Concat(deltas) /\ result.text = full_text))

Wit_C12 ==
    /\ pc = "done"
    /\ outcome = "tier3"
    /\ linesRead = 3
    /\ raw_line.kind = "done"
    /\ deltas = << <<" ", "b">>, <<"a">> >>
    /\ result.text = <<" ", "b", "a">>

\* C13: stream returns the accumulated text: whatever the outcome (also a
\* transport fault while the feed is read, after k >= 1 fragments), the
\* returned text is the concatenation of the deltas delivered in the call.
Cex_C13 ==
    (pc = "done" /\ entry \in StreamEntries /\ HasSink
       /\ result.kind = "returned")
      => result.text = Concat(deltas)

Count(k) == Cardinality({i \in DOMAIN requests : requests[i].kind = k})

\* C14: a stream call makes at most one streaming and at most one blocking
\* request, forwards a whole fallback text at most once, and makes no
\* blocking request once a fragment of the feed has been accumulated.
Thm_C14 ==
    (entry \in StreamEntries)
      => /\ Count("stream") <= 1
         /\ Count("blocking") <= 1
         /\ Count("blocking") = 1
              => /\ Len(requests) = 2
                 /\ requests[1].kind = "stream"
                 /\ full_text = <<>>
                 /\ Len(deltas) <= 1
         /\ outcome = "tier2" => (Len(deltas) <= 1 /\ Len(requests) = 1)
         /\ full_text # <<>> => Count("blocking") = 0

Wit_C14 ==
    /\ pc = "done"
    /\ outcome = "tier4"
    /\ linesRead = 2
    /\ Len(requests) = 2
    /\ deltas = << <<"x">> >>

\* C15: a stream call that was given a sink and returns non-empty text has
\* called the sink at least once, in every tier and for every provider.
Thm_C15 ==
    (pc = "done" /\ entry \in StreamEntries /\ HasSink
       /\ result.kind = "returned" /\ result.text # <<>>)
      => Len(deltas) >= 1

Wit_C15 ==
    /\ pc = "done"
    /\ outcome = "tier1"
    /\ args.on_delta = "raises"
    /\ result.text = <<"x">>
    /\ deltas = << <<"x">> >>

\* C16: the gate is a one-way breaker: once llm.use_streaming is False, no
\* step of any complete or stream call makes it anything else.
Thm_C16 ==
    [][(initialized /\ config.use_streaming = "false")
        => config'.use_streaming = "false"]_vars

Wit_C16 ==
    /\ tripped
    /\ pc = "done"
    /\ gate_before = "false"
    /\ outcome = "tier1"
    /\ result.text = <<"x">>
    /\ Gate = "false"

\* C17: after a stream call has degraded and disabled the gate, no later
\* call issues a streaming request.
Cex_C17 ==
    (tripped /\ gate_before = "false" /\ pc # "idle")
      => \A i \in DOMAIN requests : ~requests[i].stream

\* C18: stream calls that test, write and save the gate side by side never
\* make a gate that started as a boolean hold anything but a boolean, and
\* once all of them have returned the gate is False if the fallback of at
\* least one of them produced text.
Thm_C18 ==
    /\ gate_before \in {"true", "false"} => Gate \in {"true", "false"}
    /\ ((\A t \in Threads : At(t, "done"))
          /\ (\E t \in Threads : threads[t].text # <<>>))
         => Gate = "false"

Wit_C18 ==
    /\ \A t \in Threads : At(t, "done") /\ threads[t].text # <<>>
                          /\ threads[t].seen = "none"
    /\ \E t \in Threads : threads[t].ref = "detached"
    /\ Gate = "false"

GenEntries == {"generate_with_openai", "generate_with_openrouter", "generate_with_llm"}

\* C19: the gate changes only in the step that ends a stream call whose
\* fallback (Tier 1, Tier 2, Tier 4) produced non-empty text; a blocking
\* call, and a stream call that ends in any other way or with an empty
\* fallback text, leave it as it was.
Thm_C19 ==
    /\ [][(initialized /\ config'.use_streaming # config.use_streaming)
            => /\ entry \in StreamEntries
               /\ pc' = "done"
               /\ outcome' \in {"tier1", "tier2", "tier2_fallback", "tier4"}
               /\ result'.text # <<>>]_vars
    /\ [](pc = "done"
            /\ (entry \in GenEntries
                  \/ outcome \in {"missing_credential", "cancelled", "tier3",
                                  "fault", "http_error", "empty_stream"}
                  \/ result.text = <<>>)
            => Gate = gate_before)

Wit_C19 ==
    /\ pc = "done"
    /\ outcome = "tier1"
    /\ fbResp.status = 200
    /\ result.text = <<>>
    /\ Gate = "true"

\* t is c without its leading and trailing blanks
IsTrimOf(t, c) ==
    /\ t # <<>> => (t[1] # " " /\ t[Len(t)] # " ")
    /\ \E i, j \in 0..Len(c) :
         /\ i + j <= Len(c)
         /\ t = SubSeq(c, i + 1, Len(c) - j)
         /\ \A k \in 1..i : c[k] = " "
         /\ \A k \in (Len(c) - j + 1)..Len(c) : c[k] = " "

\* C20: with a credential (and a configuration), the blocking client issues
\* exactly one request and returns '' when the status is not success, when
\* there is no choice, or when the first choice's content is empty after
\* trimming; otherwise it returns that content trimmed.
Thm_C20 ==
    (pc = "done" /\ entry \in GenEntries /\ provider \in Providers
       /\ initialized /\ ApiKey(provider) # "")
      => /\ Len(requests) = 1
         /\ requests[1].kind = "blocking"
         /\ result.kind = "returned"
         /\ (fbResp.fault \/ fbResp.status # 200) => result.text = <<>>
         /\ fbResp.body.kind # "ok" => result.text = <<>>
         /\ (Ok(fbResp) /\ fbResp.body.kind = "ok")
              => IsTrimOf(result.text, fbResp.body.content)

Wit_C20 ==
    /\ pc = "done"
    /\ entry = "generate_with_openrouter"
    /\ Ok(fbResp)
    /\ fbResp.body = Body("ok", <<" ", "x", " ">>)
    /\ result.text = <<"x">>

\* The entries of a request's message list between the first and the last
Middle(m) == SubSeq(m, 2, Len(m) - 1)

\* The messages of ms are made, in order, from entries of h at rising positions
InOrderOf(ms, h) ==
    \E f \in [1..Len(ms) -> 1..Len(h)] :
       /\ \A j \in 1..Len(ms) : ms[j].content = Strip(h[f[j]].content)
                                /\ ms[j].role = Strip(h[f[j]].role)
       /\ \A j, k \in 1..Len(ms) : j < k => f[j] < f[k]

\* C21: every request's message list is [system turn, filtered history in
\* its original order, final user turn]; the system turn carries the
\* system prompt verbatim, the rendered user turn comes last, and the
\* blocking, the streaming and the fallback request of one call carry the
\* same list.
Thm_C21 ==
    \A i \in DOMAIN requests :
       LET m == requests[i].messages
       IN  /\ Len(m) >= 2
           /\ m[1].role = <<"system">>
           /\ m[1].content = IF config.system_prompt[provider] # <<>>
                             THEN config.system_prompt[provider]
                             ELSE DefaultSystemPrompt
           /\ m[Len(m)].role = <<"user">>
           /\ m[Len(m)].content
                \in {Format(UserTemplate(provider), args.context, args.instructions),
                     FallbackLayout(args.context, args.instructions)}
           /\ \A j \in 2..(Len(m) - 1) : m[j].role \in {<<"user">>, <<"assistant">>}
           /\ InOrderOf(Middle(m), args.history)
           /\ m = requests[1].messages

Wit_C21 ==
    /\ Len(requests) = 2
    /\ requests[1].stream
    /\ ~requests[2].stream
    /\ args.history = <<Turn(<<"assistant">>, <<" ", "k", " ">>),
                        Turn(<<"user">>, <<"h">>)>>
    /\ Len(requests[2].messages) = 4
    /\ requests[2].messages[1].content = <<" ", "sys", " ">>
    /\ requests[2].messages[2].content = <<"k">>

ExactTurn(e) ==
    e.role \in {<<"user">>, <<"assistant">>} /\ Strip(e.content) # <<>>

TrimmedTurn(e) ==
    Strip(e.role) \in {<<"user">>, <<"assistant">>} /\ Strip(e.content) # <<>>

Has(t, field) == \E i \in 1..Len(t) : t[i] = field

\* C23: when the configured user template lacks {instructions} or
\* {context}, or cannot be rendered, assembly does not raise and the final
\* user turn is the fixed fallback layout with the context and the
\* instructions verbatim.
Cex_C23 ==
    \A i \in DOMAIN requests :
       LET t == config.user_prompt[provider]
           m == requests[i].messages
       IN  (t # <<>> /\ (~Has(t, "{instructions}") \/ ~Has(t, "{context}")
                           \/ Has(t, "{x}") \/ Has(t, "{")))
             => m[Len(m)].content = FallbackLayout(args.context, args.instructions)

RoutedEntries == {"generate_with_llm", "stream_with_llm"}

\* C24: complete and stream through the router run the OpenAI client iff
\* the configured name, compared without regard to case (and to blanks
\* around it), is openai, and the OpenRouter client when the name is unset,
\* empty or anything else; both select the same provider for the same
\* (loaded) configuration.
Cex_C24 ==
    (pc # "idle" /\ entry \in RoutedEntries /\ initialized)
      => provider = IF config.provider.t = "str"
                         /\ Lower(Strip(config.provider.s)) = <<"openai">>
                    THEN "openai" ELSE "openrouter"

\* The call that ended was given what the earlier call was given: the same
\* gate, the same answer to the streaming request and the same feed (of at
\* most one line, then closed)
SameInputs ==
    /\ gate_before = earlier.gate_before
    /\ streamResp = earlier.streamResp
    /\ linesRead = earlier.linesRead
    /\ linesRead <= 1
    /\ raw_line = earlier.raw_line

\* C25: the two provider implementations behave alike: given the same
\* arguments and the same provider answers, stream through one and stream
\* through the other make the same fallback requests, and (the fallback
\* answered alike) return the same text, make the same on_delta calls and
\* leave the gate the same.
Cex_C25 ==
    (pc = "done" /\ earlier.set /\ earlier.provider # provider /\ SameInputs)
      => /\ Len(requests) = earlier.nreq
         /\ fbResp = earlier.fbResp
              => /\ result = earlier.result
                 /\ deltas = earlier.deltas
                 /\ Gate = earlier.gate

Other(p) == CHOOSE q \in Providers : q # p

DegradedTiers == {"tier1", "tier2", "tier2_fallback", "tier4"}

\* The text a fallback tier of the call that ended had in hand
FallbackText ==
    IF outcome = "tier2" THEN CompletionText(streamResp.body)
    ELSE BlockingText(fbResp)

\* C27: a save_config that fails while a successful fallback disables the
\* gate (the file does not get the new value) changes nothing else: the
\* gate is disabled in memory, on_delta gets the fallback text once and
\* stream returns it.
Thm_C27 ==
    (pc = "done" /\ entry \in StreamEntries /\ outcome \in DegradedTiers
       /\ FallbackText # <<>> /\ gate_before # "false" /\ saved # "false")
      => /\ Gate = "false"
         /\ HasSink => deltas = <<FallbackText>>
         /\ result = Returned(FallbackText)

Wit_C27 ==
    /\ pc = "done"
    /\ outcome = "tier4"
    /\ gate_before = "true"
    /\ saved = "true"
    /\ Gate = "false"
    /\ deltas = << <<"x">> >>
    /\ result = Returned(<<"x">>)

\* C28: a sink that raises does not disturb the stream: every fragment of
\* the feed is accumulated and offered in order and is part of the returned
\* text, a fallback text is offered once and returned, and the gate is
\* written as with a sink that does not raise.
Thm_C28 ==
    (pc = "done" /\ entry \in StreamEntries /\ args.on_delta = "raises")
      => /\ outcome \in {"tier3", "cancelled"}
              => (result = Returned(Concat(deltas)) /\ Gate = gate_before)
         /\ Len(requests) = 2
              => /\ result = Returned(BlockingText(fbResp))
                 /\ deltas = IF result.text # <<>> THEN <<result.text>> ELSE <<>>
                 /\ Gate = IF result.text # <<>> THEN "false" ELSE gate_before
         /\ (provider = "openai" /\ Ok(streamResp)
               /\ ~IsEventStream(streamResp.ctype)
               /\ CompletionText(streamResp.body) # <<>>)
              => /\ result = Returned(CompletionText(streamResp.body))
                 /\ deltas = <<result.text>>
                 /\ Gate = "false"

Wit_C28 ==
    /\ pc = "done"
    /\ args.on_delta = "raises"
    /\ outcome = "tier3"
    /\ deltas = << <<"a">>, <<" ", "b">>, <<"a">> >>
    /\ result = Returned(<<"a", " ", "b", "a">>)

\* C29: cancellation is terminal for the whole call: from the moment the
\* flag is set (before the call or at any point of it), whatever the
\* provider answers, the call delivers no delta and issues no blocking
\* fallback request.
Cex_C29 ==
    [][(Flagged /\ pc \notin {"idle", "done"})
        => (deltas' = deltas /\ requests' = requests)]_vars

\* C29 as amended: cancellation is terminal at the loop's checkpoint: a
\* call whose flag was set ends cancelled, with no delta after the flag, no
\* blocking request and the gate as it was, or it took no line from the
\* feed after the flag was set and ends as it would without the flag: with
\* the text accumulated before the flag, or through a fallback tier.
Thm_C29 ==
    /\ (Flagged /\ pc \in {"stream_wait", "iter"})
         => (Len(deltas) = deltasAtCancel /\ Len(requests) = 1)
    /\ (Flagged /\ pc = "done")
         => \/ /\ outcome = "cancelled"
               /\ closed
               /\ Len(deltas) = deltasAtCancel
               /\ Len(requests) = 1
               /\ Gate = gate_before
            \/ /\ outcome \in {"tier3", "fault"}
               /\ Len(deltas) = deltasAtCancel
               /\ Len(requests) = 1
            \/ /\ outcome \in DegradedTiers
               /\ deltasAtCancel = 0
               /\ full_text = <<>>

Wit_C29 ==
    /\ Flagged
    /\ pc = "done"
    /\ outcome = "cancelled"
    /\ deltasAtCancel = 0
    /\ linesRead = 1
    /\ raw_line.kind = "done"
    /\ Len(requests) = 1

InFlight == pc \in {"stream_wait", "iter", "fb_wait"}

TerminalOutcomes ==
    {"missing_credential", "tier1", "tier2", "tier2_fallback", "cancelled",
     "tier3", "tier4", "fault"}

\* C30: every stream call terminates: with a provider that answers each
\* request and a feed that ends, and whenever the flag is set, a call in
\* progress returns, in one of the outcomes missing credential, Tier 1,
\* Tier 2, cancelled, Tier 3, Tier 4 or fault-to-empty; the fallback is a
\* blocking request and never a second streaming request.
Thm_C30 ==
    /\ InFlight ~> (pc = "done")
    /\ [](pc = "done" => (outcome \in TerminalOutcomes /\ result.kind = "returned"))
    /\ [](InFlight => outcome \in {"none", "tier1", "tier2_fallback", "tier4"})
    /\ [](/\ Len(requests) <= 2
          /\ \A i \in DOMAIN requests : requests[i].stream <=> i = 1)

Wit_C30 ==
    /\ pc = "done"
    /\ entry = "stream_with_openai"
    /\ cancelSet
    /\ outcome = "tier4"
    /\ linesRead = 0
    /\ Len(requests) = 2
    /\ result.text = <<"x">>

====
